---- MODULE Spec2Model ----
(***************************************************************************)
(* ContentLoop AI backend: the session store of main.py (active_sessions,  *)
(* its request handlers, the expiry sweep and the periodic cleanup task)   *)
(* and the revision workflow of conversation.py (content_generator,        *)
(* feedback_collector, content_finalizer under a checkpointer).            *)
(*                                                                         *)
(* Time is counted in minutes.  A text is a sequence of one-character      *)
(* strings, so that str.lower() and the comparison with "done" are         *)
(* computed character by character.                                        *)
(***************************************************************************)
EXTENDS Integers, Sequences, FiniteSets, TLC

VARIABLES
    server,           \* lifespan: "init", "running", "stopped"
    now,              \* datetime.now(), in minutes
    next_id,          \* the next identifier uuid.uuid4() hands out
    active_sessions,  \* main.active_sessions: session id -> session record
    checkpointer,     \* conversation.checkpointer: thread id -> saved workflow state
    cleanup_task,     \* the periodic_cleanup task: its state and wake-up time
    frames,           \* the handler coroutines that have started and not returned
    current,          \* the coroutine the event loop is executing (0: none)
    just_swept,       \* history: a sweep pass was the last thing to happen
    optimization      \* the /api/optimization/analyze request in progress

vars == <<server, now, next_id, active_sessions, checkpointer, cleanup_task,
          frames, current, just_swept, optimization>>

----------------------------------------------------------------------------
(* Bounds of the model *)

MaxSessions == 2

MaxFeedback == 2

MaxTicks == 2

MaxTasks == 2

TickMinutes == 5

MaxSweepTicks == 5

MaxText == 4

(* Program constants *)

SESSION_TIMEOUT_MINUTES == 5

CLEANUP_INTERVAL_MINUTES == 10

----------------------------------------------------------------------------
(* Values *)

Ids == 1..MaxSessions

Slots == 1..MaxTasks

Done == <<"d", "o", "n", "e">>

FeedbackTexts ==
    { Done,
      <<"D", "O", "N", "E">>,
      <<"D", "o", "n", "e">>,
      <<"d", "o", "n", "e", " ">>,
      <<" ", "d", "o", "n", "e">>,
      <<>> }

(* The text the generator returns for the n-th draft of a thread; the     *)
(* texts of different calls are told apart.                                *)
Draft(thread_id, n) == 10 * thread_id + n

NoPost == 0

Returns == "returns"

Raise == "raises"

LLMOutcomes == {Returns, Raise}

NoFeedbackYet == <<"No feedback yet">>

LowerChar(c) ==
    CASE c = "D" -> "d"
      [] c = "O" -> "o"
      [] c = "N" -> "n"
      [] c = "E" -> "e"
      [] OTHER -> c

Last(s) == s[Len(s)]

RECURSIVE Strip(_)
(* str.strip() for the blank character. *)
Strip(t) ==
    IF t = <<>> THEN t
    ELSE IF Head(t) = " " THEN Strip(Tail(t))
    ELSE IF Last(t) = " " THEN Strip(SubSeq(t, 1, Len(t) - 1))
    ELSE t

(* Mutant: the text is trimmed before it is compared with "done". *)
LowerStripped(t) == [i \in DOMAIN Strip(t) |-> LowerChar(Strip(t)[i])]

(* Mutant: the comparison with "done" made case-sensitive. *)
LowerCaseSensitive(t) == t

Lower(t) == [i \in DOMAIN t |-> LowerChar(t[i])]

Put(f, k, v) == [x \in DOMAIN f \cup {k} |-> IF x = k THEN v ELSE f[x]]

Remove(f, K) == [x \in DOMAIN f \ K |-> f[x]]

----------------------------------------------------------------------------
(* conversation.py: the workflow graph *)

NoThread ==
    [next |-> "none", generated_post |-> <<>>, human_feedback |-> <<>>,
     should_continue |-> TRUE]

InitialState ==
    [next |-> "content_generator", generated_post |-> <<>>,
     human_feedback |-> <<>>, should_continue |-> TRUE]

PromptFeedback(state) ==
    IF state.human_feedback # <<>> THEN Last(state.human_feedback)
    ELSE NoFeedbackYet

content_generator(state, response_content) ==
    [state EXCEPT !.generated_post = Append(@, response_content)]

feedback_collector(state, user_feedback) ==
    [state EXCEPT !.human_feedback = Append(@, user_feedback),
                  !.should_continue = (Lower(user_feedback) # Done)]

content_finalizer(state) == state

should_continue_feedback(state) ==
    IF state.should_continue THEN "content_generator" ELSE "content_finalizer"

(* One run of content_generator followed by the interrupt of               *)
(* feedback_collector.  The checkpointer saves the state after every node, *)
(* so a generator that raises leaves the state it was given, with          *)
(* content_generator as the node to run next.                              *)
GenerateThenGate(thread_id, state, llm) ==
    LET response_content == Draft(thread_id, Len(state.generated_post) + 1) IN
    IF llm = Raise
    THEN [ck |-> [state EXCEPT !.next = "content_generator"],
          raised |-> TRUE, post |-> NoPost, prompts |-> <<PromptFeedback(state)>>]
    ELSE [ck |-> [content_generator(state, response_content)
                     EXCEPT !.next = "feedback_collector"],
          raised |-> FALSE, post |-> response_content,
          prompts |-> <<PromptFeedback(state)>>]

StreamInitial(thread_id, llm) == GenerateThenGate(thread_id, InitialState, llm)

(* conversation_app.stream(Command(resume=feedback)) on a saved thread.    *)
(* Suspended at the interrupt, feedback_collector receives the resume      *)
(* value.  With content_generator pending (an earlier run raised), that    *)
(* node is run again and the workflow suspends at the interrupt: the       *)
(* resume value belongs to the resumed step and is not kept for a later    *)
(* one.                                                                    *)
StreamResume(thread_id, ck, feedback, llm) ==
    CASE ck.next = "feedback_collector" ->
           LET st == feedback_collector(ck, feedback) IN
           IF should_continue_feedback(st) = "content_generator"
           THEN GenerateThenGate(thread_id, st, llm)
           ELSE [ck |-> [content_finalizer(st) EXCEPT !.next = "__end__"],
                 raised |-> FALSE, post |-> NoPost, prompts |-> <<>>]
      [] ck.next = "content_generator" -> GenerateThenGate(thread_id, ck, llm)
      [] OTHER -> [ck |-> ck, raised |-> FALSE, post |-> NoPost, prompts |-> <<>>]

----------------------------------------------------------------------------
(* main.py: the event loop *)

RECURSIVE TotalFeedback(_)
(* The number of feedback items the threads of T hold: the model stops     *)
(* accepting new feedback at MaxFeedback of them.                          *)
TotalFeedback(T) ==
    IF T = {} THEN 0
    ELSE LET t == CHOOSE x \in T : TRUE
         IN  Len(checkpointer[t].human_feedback) + TotalFeedback(T \ {t})


Resp(code, sid, post, status, count, total) ==
    [code |-> code, sid |-> sid, post |-> post, status |-> status,
     count |-> count, total |-> total]

NoResp == Resp(0, 0, NoPost, "", 0, 0)

NoSnapshot == [store |-> <<>>, threads |-> <<>>, just_swept |-> FALSE]

(* What a handler found when it was entered, kept for comparison. *)
Snapshot ==
    [store |-> active_sessions, threads |-> checkpointer, just_swept |-> FALSE]

(* The frame of a handler coroutine: the request (op, sid, fb), where it   *)
(* stands (pc), its locals (post, current_time, expired), the feedback     *)
(* items of the prompts of the llm.invoke calls it made (calls), at        *)
(* pc = "reply" the response it returns (resp), and the snapshot taken     *)
(* when it was entered (before).                                           *)
IdleFrame ==
    [op |-> "idle", pc |-> "idle", sid |-> 0, fb |-> <<>>, post |-> NoPost,
     current_time |-> 0, expired |-> {}, periodic |-> FALSE, calls |-> <<>>,
     resp |-> NoResp, before |-> NoSnapshot]

Request(op, sid, fb) ==
    [IdleFrame EXCEPT !.op = op, !.sid = sid, !.fb = fb, !.before = Snapshot]

Reply(frame, resp) == [frame EXCEPT !.pc = "reply", !.resp = resp]

(* Mutant: the sweep gives the event loop up between its scan and its     *)
(* removals.                                                               *)
AwaitsInsideSweep(op, pc) == op = "cleanup" /\ pc = "remove"

(* Whether a handler gives the event loop up when it reaches pc: the       *)
(* handlers are coroutines whose bodies hold no await, and                 *)
(* conversation_app.stream is a synchronous call.                          *)
Awaits(op, pc) == FALSE

LoopFree == server = "running" /\ current = 0

(* The event loop starts a new coroutine only when none is executing. *)
CanRun(k) ==
    /\ LoopFree
    /\ frames[k].op = "idle"
    /\ \A j \in Slots : j < k => frames[j].op # "idle"

(* periodic_cleanup is ready to run a pass: lifespan has created the task  *)
(* and it has not run yet, or its sleep is over and its next pass has not  *)
(* begun.                                                                  *)
SweepDue ==
    \/ cleanup_task.state = "created"
    \/ cleanup_task.state = "scheduled" /\ cleanup_task.wake <= now

(* A request handler starts once the application has started: lifespan     *)
(* yields after asyncio.create_task, and the loop runs the new task up to  *)
(* its first sleep before the server accepts a request.                    *)
CanDispatch(k) ==
    /\ CanRun(k)
    /\ cleanup_task.state # "created"

CanStep(k, op, pc) ==
    /\ server = "running"
    /\ frames[k].op = op
    /\ frames[k].pc = pc
    /\ current \in {0, k}

Continue(k, frame) ==
    /\ frames' = [frames EXCEPT ![k] = frame]
    /\ current' = IF Awaits(frame.op, frame.pc) THEN 0 ELSE k

(* An exception raised inside a try block whose handler is                 *)
(* `except Exception`: the handler answers 500 whatever was raised, an     *)
(* HTTPException(404) included.                                            *)
ExceptException(raised_code) == 500

LastActivity(session_data) ==
    IF "last_activity" \in DOMAIN session_data THEN session_data.last_activity
    ELSE session_data.created_at

(* Mutant: a session whose age equals the timeout counts as expired. *)
IsExpiredInclusive(session_data, current_time) ==
    current_time - LastActivity(session_data) >= SESSION_TIMEOUT_MINUTES

IsExpired(session_data, current_time) ==
    current_time - LastActivity(session_data) > SESSION_TIMEOUT_MINUTES

ExpiredSessions(current_time) ==
    {sid \in DOMAIN active_sessions : IsExpired(active_sessions[sid], current_time)}

----------------------------------------------------------------------------
(* optimization_agent.py: OptimizationAgent.optimize_content *)

(* The text the generator returns, token by token: the braces, the comma,  *)
(* "r" for the members of a report of the expected shape, "k" for a member *)
(* with another key, "x" for anything else.                                *)
Tokens == {"{", "}", ",", "r", "k", "x"}

Texts == UNION {[1..n -> Tokens] : n \in 0..MaxText}

(* llm.invoke: it raises, or it returns a response with a content. *)
LLMResponses ==
    {[raised |-> TRUE, content |-> <<>>]}
       \cup {[raised |-> FALSE, content |-> t] : t \in Texts}

(* The topics and contents of the requests: no topic, a blank one, one,    *)
(* two and four words; no paragraph break, one, one and a half, two.       *)
Topics ==
    { <<>>,
      <<" ">>,
      <<"d", "E">>,
      <<"E", " ", " ", "d">>,
      <<"d", " ", "E", " ", "d", "d", " ", "E">> }

Contents ==
    { <<>>,
      <<"p">>,
      <<"p", "\n", "\n", "p">>,
      <<"p", "\n", "\n", "\n", "p">>,
      <<"\n", "\n", "\n", "\n">> }

ReportFields ==
    {"hashtags", "call_to_action", "structure_analysis",
     "engagement_optimization", "overall_score", "key_recommendations"}

NoMatch == <<"None">>

(* re.search(r'\{.*\}', content_text, re.DOTALL).group(0): from the first  *)
(* opening brace to the last closing brace after it.                       *)
re_search(content_text) ==
    LET opening == {i \in DOMAIN content_text : content_text[i] = "{"}
        first == CHOOSE i \in opening : \A j \in opening : i <= j
        closing == {j \in DOMAIN content_text : content_text[j] = "}" /\ j > first}
        last == CHOOSE j \in closing : \A i \in closing : i <= j
    IN  IF opening = {} \/ closing = {} THEN NoMatch
        ELSE SubSeq(content_text, first, last)

(* json.loads on the matched text: an object is a pair of braces around    *)
(* members separated by commas; anything else is a JSONDecodeError.  The   *)
(* value is given by the keys of the object.                               *)
json_loads(json_str) ==
    LET inner == SubSeq(json_str, 2, Len(json_str) - 1)
        members == {i \in DOMAIN inner : i % 2 = 1}
        is_object ==
            /\ Len(json_str) >= 2
            /\ json_str[1] = "{"
            /\ json_str[Len(json_str)] = "}"
            /\ \/ inner = <<>>
               \/ /\ Len(inner) % 2 = 1
                  /\ \A i \in DOMAIN inner :
                        IF i % 2 = 1 THEN inner[i] \in {"r", "k"} ELSE inner[i] = ","
    IN  IF is_object
        THEN [raised |-> FALSE,
              keys |-> UNION {IF inner[i] = "r" THEN ReportFields ELSE {"other"}
                                : i \in members}]
        ELSE [raised |-> TRUE, keys |-> {}]

RECURSIVE SplitWords(_, _, _)
(* str.split(): the words between runs of blanks, none of them empty. *)
SplitWords(t, word, words) ==
    IF t = <<>> THEN (IF word = <<>> THEN words ELSE Append(words, word))
    ELSE IF Head(t) = " "
    THEN SplitWords(Tail(t), <<>>, IF word = <<>> THEN words ELSE Append(words, word))
    ELSE SplitWords(Tail(t), Append(word, Head(t)), words)

Split(t) == SplitWords(t, <<>>, <<>>)

UpperChar(c) ==
    CASE c = "d" -> "D"
      [] c = "e" -> "E"
      [] c = "content" -> "Content"
      [] c = "professional" -> "Professional"
      [] OTHER -> c

(* str.capitalize(): the first character upper-case, the others lower. *)
Capitalize(word) ==
    IF word = <<>> THEN word ELSE <<UpperChar(Head(word))>> \o Lower(Tail(word))

(* seq[:n] *)
Take(seq, n) == SubSeq(seq, 1, IF n < Len(seq) THEN n ELSE Len(seq))

RECURSIVE CountBreaks(_)
(* The number of "\n\n" separators str.split finds, left to right. *)
CountBreaks(t) ==
    IF Len(t) < 2 THEN 0
    ELSE IF t[1] = "\n" /\ t[2] = "\n" THEN 1 + CountBreaks(SubSeq(t, 3, Len(t)))
    ELSE CountBreaks(Tail(t))

(* A report: the top-level fields it has and, of their values, the         *)
(* suggested hashtags, the paragraph count and the overall score.          *)
Report(fields, hashtags, paragraph_count, overall_score) ==
    [fields |-> fields, hashtags |-> hashtags,
     paragraph_count |-> paragraph_count, overall_score |-> overall_score]

NoReport == Report({}, <<>>, 0, 0)

(* The dictionary json.loads returned, with the keys the text gave it. *)
ParsedReport(keys) == Report(keys, <<>>, 0, 0)

create_fallback_optimization(content, topic) ==
    LET words == IF topic # <<>> THEN Split(Lower(topic))
                 ELSE << <<"content">>, <<"professional">> >>
        first == Take(words, 3)
        hashtags == [i \in DOMAIN first |-> <<"#">> \o Capitalize(first[i])]
                       \o << <<"#Content">>, <<"#ProfessionalGrowth">> >>
    IN  Report(ReportFields, Take(hashtags, 5), CountBreaks(content) + 1, 75)

(* Mutant: the except clause catches json.JSONDecodeError alone, and an    *)
(* exception of llm.invoke leaves the function.                            *)
optimize_content_narrow_except(content, topic, response) ==
    LET fallback == [raised |-> FALSE,
                     report |-> create_fallback_optimization(content, topic)]
        json_match == re_search(response.content)
        parsed == json_loads(json_match)
    IN  IF response.raised THEN [raised |-> TRUE, report |-> NoReport]
        ELSE IF json_match = NoMatch THEN fallback
        ELSE IF parsed.raised THEN fallback
        ELSE [raised |-> FALSE, report |-> ParsedReport(parsed.keys)]

(* The try block with its `except Exception`: an exception of llm.invoke   *)
(* or of json.loads ends in the fallback, as does a text without a match;  *)
(* the fallback itself performs no operation that raises.                  *)
optimize_content(content, topic, response) ==
    LET fallback == [raised |-> FALSE,
                     report |-> create_fallback_optimization(content, topic)]
        json_match == re_search(response.content)
        parsed == json_loads(json_match)
    IN  IF response.raised THEN fallback
        ELSE IF json_match = NoMatch THEN fallback
        ELSE IF parsed.raised THEN fallback
        ELSE [raised |-> FALSE, report |-> ParsedReport(parsed.keys)]

NoOptimization ==
    [pc |-> "idle", content |-> <<>>, topic |-> <<>>,
     response |-> [raised |-> FALSE, content |-> <<>>],
     code |-> 0, report |-> NoReport]

----------------------------------------------------------------------------
(* main.py: lifespan and the clock *)

Init ==
    /\ server = "init"
    /\ now = 0
    /\ next_id = 1
    /\ active_sessions = <<>>
    /\ checkpointer = [sid \in Ids |-> NoThread]
    /\ cleanup_task = [state |-> "none", wake |-> 0]
    /\ frames = [k \in Slots |-> IdleFrame]
    /\ current = 0
    /\ just_swept = FALSE
    /\ optimization = NoOptimization

Startup ==
    /\ server = "init"
    /\ server' = "running"
    /\ cleanup_task' = [state |-> "created", wake |-> now]
    /\ UNCHANGED <<now, next_id, active_sessions, checkpointer, frames,
                   current, just_swept, optimization>>

Shutdown ==
    /\ LoopFree
    /\ \A k \in Slots : frames[k].op = "idle"
    /\ server' = "stopped"
    /\ cleanup_task' = [cleanup_task EXCEPT !.state = "cancelled"]
    /\ just_swept' = FALSE
    /\ UNCHANGED <<now, next_id, active_sessions, checkpointer, frames,
                   current, optimization>>

(* Time passes while the process runs: between handlers, and inside a      *)
(* handler while it waits for the generator.                               *)
Tick ==
    /\ server = "running"
    /\ \A k \in Slots : frames[k].pc \in {"idle", "stream"}
    /\ now + TickMinutes <= MaxTicks * TickMinutes
    /\ now' = now + TickMinutes
    /\ just_swept' = FALSE
    /\ UNCHANGED <<server, next_id, active_sessions, checkpointer,
                   cleanup_task, frames, current, optimization>>

(* The return statement of a request handler: the response leaves and the  *)
(* coroutine ends.                                                         *)
Return(k) ==
    /\ server = "running"
    /\ frames[k].pc = "reply"
    /\ ~ frames[k].periodic
    /\ current \in {0, k}
    /\ frames' = [frames EXCEPT ![k] = IdleFrame]
    /\ current' = 0
    /\ UNCHANGED <<server, now, next_id, active_sessions, checkpointer,
                   cleanup_task, just_swept, optimization>>

----------------------------------------------------------------------------
(* main.py: start_ai_agent_session *)

(* Mutant: the identifier is the lowest one not in the store. *)
StartBeginReusesIds(k) ==
    /\ CanDispatch(k)
    /\ next_id <= MaxSessions
    /\ LET session_id ==
               CHOOSE i \in 1..next_id :
                  /\ i \notin DOMAIN active_sessions
                  /\ \A j \in 1..next_id : j \notin DOMAIN active_sessions => i <= j
       IN  /\ next_id' = IF session_id = next_id THEN next_id + 1 ELSE next_id
           /\ Continue(k, [Request("start", session_id, <<>>) EXCEPT !.pc = "stream"])
    /\ just_swept' = FALSE
    /\ UNCHANGED <<server, now, active_sessions, checkpointer, cleanup_task,
                   optimization>>

StartBegin(k) ==
    /\ CanDispatch(k)
    /\ next_id <= MaxSessions
    /\ next_id' = next_id + 1
    /\ Continue(k, [Request("start", next_id, <<>>) EXCEPT !.pc = "stream"])
    /\ just_swept' = FALSE
    /\ UNCHANGED <<server, now, active_sessions, checkpointer, cleanup_task,
                   optimization>>

(* Mutant: the handler takes the post from the "__interrupt__" chunk     *)
(* alone, which does not carry it.                                         *)
StartStreamInterruptOnly(k) ==
    /\ CanStep(k, "start", "stream")
    /\ \E llm \in LLMOutcomes :
         LET session_id == frames[k].sid
             run == StreamInitial(session_id, llm)
             frame == [frames[k] EXCEPT !.calls = @ \o run.prompts]
         IN  /\ checkpointer' = [checkpointer EXCEPT ![session_id] = run.ck]
             /\ IF run.raised
                THEN Continue(k, Reply(frame, Resp(ExceptException(0), 0, NoPost, "", 0, 0)))
                ELSE Continue(k, [frame EXCEPT !.pc = "store", !.post = NoPost])
    /\ UNCHANGED <<server, now, next_id, active_sessions, cleanup_task,
                   just_swept, optimization>>

(* Mutant: the handler stores the session record before it runs the        *)
(* workflow, and leaves it behind when the generator raises.               *)
StartStreamStoreOnFailure(k) ==
    /\ CanStep(k, "start", "stream")
    /\ \E llm \in LLMOutcomes :
         LET session_id == frames[k].sid
             run == StreamInitial(session_id, llm)
             frame == [frames[k] EXCEPT !.calls = @ \o run.prompts]
         IN  /\ checkpointer' = [checkpointer EXCEPT ![session_id] = run.ck]
             /\ IF run.raised
                THEN /\ active_sessions' =
                           Put(active_sessions, session_id,
                               [thread_config |-> session_id,
                                current_post |-> NoPost,
                                status |-> "waiting_feedback",
                                created_at |-> now,
                                last_activity |-> now])
                     /\ Continue(k, Reply(frame, Resp(ExceptException(0), 0, NoPost,
                                                      "", 0, 0)))
                ELSE /\ UNCHANGED active_sessions
                     /\ Continue(k, [frame EXCEPT !.pc = "store", !.post = run.post])
    /\ UNCHANGED <<server, now, next_id, cleanup_task, just_swept,
                   optimization>>

StartStream(k) ==
    /\ CanStep(k, "start", "stream")
    /\ \E llm \in LLMOutcomes :
         LET session_id == frames[k].sid
             run == StreamInitial(session_id, llm)
             frame == [frames[k] EXCEPT !.calls = @ \o run.prompts]
         IN  /\ checkpointer' = [checkpointer EXCEPT ![session_id] = run.ck]
             /\ IF run.raised
                THEN Continue(k, Reply(frame, Resp(ExceptException(0), 0, NoPost, "", 0, 0)))
                ELSE Continue(k, [frame EXCEPT !.pc = "store", !.post = run.post])
    /\ UNCHANGED <<server, now, next_id, active_sessions, cleanup_task,
                   just_swept, optimization>>

(* Mutant: every session is stored with the thread of the first one. *)
StartStoreSharedThread(k) ==
    /\ CanStep(k, "start", "store")
    /\ LET session_id == frames[k].sid
           generated_post == frames[k].post
       IN  /\ active_sessions' =
                 Put(active_sessions, session_id,
                     [thread_config |-> 1,
                      current_post |-> generated_post,
                      status |-> "waiting_feedback",
                      created_at |-> now,
                      last_activity |-> now])
           /\ Continue(k, Reply(frames[k], Resp(200, session_id, generated_post,
                                                "waiting_feedback", 0, 0)))
    /\ UNCHANGED <<server, now, next_id, checkpointer, cleanup_task,
                   just_swept, optimization>>

StartStore(k) ==
    /\ CanStep(k, "start", "store")
    /\ LET session_id == frames[k].sid
           generated_post == frames[k].post
       IN  /\ active_sessions' =
                 Put(active_sessions, session_id,
                     [thread_config |-> session_id,
                      current_post |-> generated_post,
                      status |-> "waiting_feedback",
                      created_at |-> now,
                      last_activity |-> now])
           /\ Continue(k, Reply(frames[k], Resp(200, session_id, generated_post,
                                                "waiting_feedback", 0, 0)))
    /\ UNCHANGED <<server, now, next_id, checkpointer, cleanup_task,
                   just_swept, optimization>>

----------------------------------------------------------------------------
(* main.py: provide_ai_agent_feedback *)

FeedbackNotFound(k, session_id, feedback) ==
    /\ CanDispatch(k)
    /\ session_id \notin DOMAIN active_sessions
    /\ Continue(k, Reply(Request("feedback", session_id, feedback),
                         Resp(ExceptException(404), session_id, NoPost, "", 0, 0)))
    /\ just_swept' = FALSE
    /\ UNCHANGED <<server, now, next_id, active_sessions, checkpointer,
                   cleanup_task, optimization>>

(* Mutant: "done" on a session that is already completed is refused. *)
FeedbackDoneOnce(k, session_id, feedback) ==
    /\ CanDispatch(k)
    /\ session_id \in DOMAIN active_sessions
    /\ Lower(feedback) = Done
    /\ active_sessions' = [active_sessions EXCEPT ![session_id].status = "completed"]
    /\ Continue(k, Reply(Request("feedback", session_id, feedback),
                         IF active_sessions[session_id].status = "completed"
                         THEN Resp(ExceptException(400), session_id, NoPost, "", 0, 0)
                         ELSE Resp(200, session_id,
                                   active_sessions[session_id].current_post,
                                   "completed", 0, 0)))
    /\ just_swept' = FALSE
    /\ UNCHANGED <<server, now, next_id, checkpointer, cleanup_task,
                   optimization>>

FeedbackDone(k, session_id, feedback) ==
    /\ CanDispatch(k)
    /\ session_id \in DOMAIN active_sessions
    /\ Lower(feedback) = Done
    /\ active_sessions' = [active_sessions EXCEPT ![session_id].status = "completed"]
    /\ Continue(k, Reply(Request("feedback", session_id, feedback),
                         Resp(200, session_id,
                              active_sessions[session_id].current_post,
                              "completed", 0, 0)))
    /\ just_swept' = FALSE
    /\ UNCHANGED <<server, now, next_id, checkpointer, cleanup_task,
                   optimization>>

FeedbackBegin(k, session_id, feedback) ==
    /\ CanDispatch(k)
    /\ session_id \in DOMAIN active_sessions
    /\ Lower(feedback) # Done
    /\ checkpointer[active_sessions[session_id].thread_config].next = "feedback_collector"
          => TotalFeedback(Ids) < MaxFeedback
    /\ Continue(k, [Request("feedback", session_id, feedback) EXCEPT !.pc = "stream"])
    /\ just_swept' = FALSE
    /\ UNCHANGED <<server, now, next_id, active_sessions, checkpointer,
                   cleanup_task, optimization>>

FeedbackStream(k) ==
    /\ CanStep(k, "feedback", "stream")
    /\ \E llm \in LLMOutcomes :
         LET thread_id == frames[k].before.store[frames[k].sid].thread_config
             run == StreamResume(thread_id, checkpointer[thread_id], frames[k].fb, llm)
             frame == [frames[k] EXCEPT !.calls = @ \o run.prompts]
         IN  /\ checkpointer' = [checkpointer EXCEPT ![thread_id] = run.ck]
             /\ IF run.raised
                THEN Continue(k, Reply(frame, Resp(ExceptException(0), frames[k].sid,
                                                   NoPost, "", 0, 0)))
                ELSE Continue(k, [frame EXCEPT !.pc = "write", !.post = run.post])
    /\ UNCHANGED <<server, now, next_id, active_sessions, cleanup_task,
                   just_swept, optimization>>

(* Mutant: the handler refreshes last_activity and leaves current_post. *)
FeedbackWriteKeepsDraft(k) ==
    /\ CanStep(k, "feedback", "write")
    /\ LET session_id == frames[k].sid
           generated_post == frames[k].post
       IN  IF session_id \in DOMAIN active_sessions
           THEN /\ active_sessions' =
                      [active_sessions EXCEPT ![session_id].last_activity = now]
                /\ Continue(k, Reply(frames[k], Resp(200, session_id, generated_post,
                                                     "waiting_feedback", 0, 0)))
           ELSE /\ Continue(k, Reply(frames[k], Resp(ExceptException(0), session_id,
                                                     NoPost, "", 0, 0)))
                /\ UNCHANGED active_sessions
    /\ UNCHANGED <<server, now, next_id, checkpointer, cleanup_task,
                   just_swept, optimization>>

(* Mutant: the handler also stores the status it answers. *)
FeedbackWriteSetsStatus(k) ==
    /\ CanStep(k, "feedback", "write")
    /\ LET session_id == frames[k].sid
           generated_post == frames[k].post
       IN  IF session_id \in DOMAIN active_sessions
           THEN /\ active_sessions' =
                      [active_sessions EXCEPT ![session_id].current_post = generated_post,
                                              ![session_id].last_activity = now,
                                              ![session_id].status = "waiting_feedback"]
                /\ Continue(k, Reply(frames[k], Resp(200, session_id, generated_post,
                                                     "waiting_feedback", 0, 0)))
           ELSE /\ Continue(k, Reply(frames[k], Resp(ExceptException(0), session_id,
                                                     NoPost, "", 0, 0)))
                /\ UNCHANGED active_sessions
    /\ UNCHANGED <<server, now, next_id, checkpointer, cleanup_task,
                   just_swept, optimization>>

FeedbackWrite(k) ==
    /\ CanStep(k, "feedback", "write")
    /\ LET session_id == frames[k].sid
           generated_post == frames[k].post
       IN  IF session_id \in DOMAIN active_sessions
           THEN /\ active_sessions' =
                      [active_sessions EXCEPT ![session_id].current_post = generated_post,
                                              ![session_id].last_activity = now]
                /\ Continue(k, Reply(frames[k], Resp(200, session_id, generated_post,
                                                     "waiting_feedback", 0, 0)))
           ELSE /\ Continue(k, Reply(frames[k], Resp(ExceptException(0), session_id,
                                                     NoPost, "", 0, 0)))
                /\ UNCHANGED active_sessions
    /\ UNCHANGED <<server, now, next_id, checkpointer, cleanup_task,
                   just_swept, optimization>>

----------------------------------------------------------------------------
(* main.py: get_ai_agent_session, delete_ai_agent_session, get_session_stats *)

(* Mutant: the lookup treats a session past its timeout as absent. *)
GetSessionExpiryChecked(k, session_id) ==
    /\ CanDispatch(k)
    /\ Continue(k, Reply(Request("get", session_id, <<>>),
                         IF \/ session_id \notin DOMAIN active_sessions
                            \/ IsExpired(active_sessions[session_id], now)
                         THEN Resp(404, session_id, NoPost, "", 0, 0)
                         ELSE Resp(200, session_id,
                                   active_sessions[session_id].current_post,
                                   active_sessions[session_id].status, 0, 0)))
    /\ just_swept' = FALSE
    /\ UNCHANGED <<server, now, next_id, active_sessions, checkpointer,
                   cleanup_task, optimization>>

(* Mutant: a read counts as activity. *)
GetSessionTouches(k, session_id) ==
    /\ CanDispatch(k)
    /\ active_sessions' =
          IF session_id \in DOMAIN active_sessions
          THEN [active_sessions EXCEPT ![session_id].last_activity = now]
          ELSE active_sessions
    /\ Continue(k, Reply(Request("get", session_id, <<>>),
                         IF session_id \notin DOMAIN active_sessions
                         THEN Resp(404, session_id, NoPost, "", 0, 0)
                         ELSE Resp(200, session_id,
                                   active_sessions[session_id].current_post,
                                   active_sessions[session_id].status, 0, 0)))
    /\ just_swept' = FALSE
    /\ UNCHANGED <<server, now, next_id, checkpointer, cleanup_task,
                   optimization>>

GetSession(k, session_id) ==
    /\ CanDispatch(k)
    /\ Continue(k, Reply(Request("get", session_id, <<>>),
                         IF session_id \notin DOMAIN active_sessions
                         THEN Resp(404, session_id, NoPost, "", 0, 0)
                         ELSE Resp(200, session_id,
                                   active_sessions[session_id].current_post,
                                   active_sessions[session_id].status, 0, 0)))
    /\ just_swept' = FALSE
    /\ UNCHANGED <<server, now, next_id, active_sessions, checkpointer,
                   cleanup_task, optimization>>

(* Mutant: delete empties the store. *)
DeleteSessionClearsStore(k, session_id) ==
    /\ CanDispatch(k)
    /\ IF session_id \notin DOMAIN active_sessions
       THEN /\ Continue(k, Reply(Request("delete", session_id, <<>>),
                                 Resp(404, session_id, NoPost, "", 0, 0)))
            /\ UNCHANGED active_sessions
       ELSE /\ active_sessions' = <<>>
            /\ Continue(k, Reply(Request("delete", session_id, <<>>),
                                 Resp(200, session_id, NoPost, "", 0, 0)))
    /\ just_swept' = FALSE
    /\ UNCHANGED <<server, now, next_id, checkpointer, cleanup_task,
                   optimization>>

DeleteSession(k, session_id) ==
    /\ CanDispatch(k)
    /\ IF session_id \notin DOMAIN active_sessions
       THEN /\ Continue(k, Reply(Request("delete", session_id, <<>>),
                                 Resp(404, session_id, NoPost, "", 0, 0)))
            /\ UNCHANGED active_sessions
       ELSE /\ active_sessions' = Remove(active_sessions, {session_id})
            /\ Continue(k, Reply(Request("delete", session_id, <<>>),
                                 Resp(200, session_id, NoPost, "", 0, 0)))
    /\ just_swept' = FALSE
    /\ UNCHANGED <<server, now, next_id, checkpointer, cleanup_task,
                   optimization>>

(* Mutant: stats measures the age of a session from created_at. *)
SessionStatsCreatedAt(k) ==
    /\ CanDispatch(k)
    /\ LET total_sessions == Cardinality(DOMAIN active_sessions)
           expired_sessions ==
               Cardinality({sid \in DOMAIN active_sessions :
                               now - active_sessions[sid].created_at
                                  > SESSION_TIMEOUT_MINUTES})
       IN  Continue(k, Reply(Request("stats", 0, <<>>),
                             Resp(200, 0, NoPost, "", expired_sessions, total_sessions)))
    /\ just_swept' = FALSE
    /\ UNCHANGED <<server, now, next_id, active_sessions, checkpointer,
                   cleanup_task, optimization>>

(* "healthy_sessions" of the stats response. *)
HealthySessions(resp) == resp.total - resp.count

SessionStats(k) ==
    /\ CanDispatch(k)
    /\ LET total_sessions == Cardinality(DOMAIN active_sessions)
           expired_sessions == Cardinality(ExpiredSessions(now))
       IN  Continue(k, Reply(Request("stats", 0, <<>>),
                             Resp(200, 0, NoPost, "", expired_sessions, total_sessions)))
    /\ just_swept' = FALSE
    /\ UNCHANGED <<server, now, next_id, active_sessions, checkpointer,
                   cleanup_task, optimization>>

----------------------------------------------------------------------------
(* main.py: cleanup_expired_sessions, manual_cleanup_sessions, periodic_cleanup *)

(* The first loop of cleanup_expired_sessions: current_time is read and    *)
(* the expired identifiers are collected.  The pass is entered by the      *)
(* manual_cleanup_sessions handler, or by the periodic_cleanup task when   *)
(* its sleep is over.                                                      *)
CleanupScan(k, periodic) ==
    /\ IF periodic THEN CanRun(k) /\ SweepDue ELSE CanDispatch(k)
    /\ Continue(k, [Request("cleanup", 0, <<>>) EXCEPT !.pc = "remove",
                                                       !.before.just_swept = just_swept,
                                                       !.current_time = now,
                                                       !.expired = ExpiredSessions(now),
                                                       !.periodic = periodic])
    /\ UNCHANGED <<server, now, next_id, active_sessions, checkpointer,
                   cleanup_task, just_swept, optimization>>

(* Mutant: the removal loop stops after the first identifier. *)
DeletedFirstOnly(expired_sessions) ==
    {sid \in expired_sessions : \A j \in expired_sessions : sid <= j}

(* The second loop: del active_sessions[session_id] for each collected     *)
(* identifier, in the order collected; a missing one raises KeyError and   *)
(* ends the loop.                                                          *)
Deleted(expired_sessions) ==
    {sid \in expired_sessions :
        \A j \in expired_sessions : j <= sid => j \in DOMAIN active_sessions}

CleanupRemove(k) ==
    /\ CanStep(k, "cleanup", "remove")
    /\ LET expired_sessions == frames[k].expired
           key_error == ~ (expired_sessions \subseteq DOMAIN active_sessions)
       IN  /\ active_sessions' = Remove(active_sessions, Deleted(expired_sessions))
           /\ Continue(k, Reply(frames[k],
                 IF key_error
                 THEN Resp(500, 0, NoPost, "", 0, 0)
                 ELSE Resp(200, 0, NoPost, "", Cardinality(expired_sessions), 0)))
    /\ just_swept' = TRUE
    /\ UNCHANGED <<server, now, next_id, checkpointer, cleanup_task,
                   optimization>>

(* periodic_cleanup after its pass: await asyncio.sleep(600). *)
PeriodicSleep(k) ==
    /\ server = "running"
    /\ frames[k].pc = "reply"
    /\ frames[k].periodic
    /\ current \in {0, k}
    /\ cleanup_task' = [state |-> "scheduled",
                        wake |-> now + CLEANUP_INTERVAL_MINUTES]
    /\ frames' = [frames EXCEPT ![k] = IdleFrame]
    /\ current' = 0
    /\ UNCHANGED <<server, now, next_id, active_sessions, checkpointer,
                   just_swept, optimization>>

----------------------------------------------------------------------------

Next ==
    \/ Startup
    \/ Shutdown
    \/ Tick
    \/ \E k \in Slots : Return(k)
    \/ \E k \in Slots : StartBegin(k)
    \/ \E k \in Slots : StartStream(k)
    \/ \E k \in Slots : StartStore(k)
    \/ \E k \in Slots, sid \in Ids, fb \in FeedbackTexts : FeedbackNotFound(k, sid, fb)
    \/ \E k \in Slots, sid \in Ids, fb \in FeedbackTexts : FeedbackDone(k, sid, fb)
    \/ \E k \in Slots, sid \in Ids, fb \in FeedbackTexts : FeedbackBegin(k, sid, fb)
    \/ \E k \in Slots : FeedbackStream(k)
    \/ \E k \in Slots : FeedbackWrite(k)
    \/ \E k \in Slots, sid \in Ids : GetSession(k, sid)
    \/ \E k \in Slots, sid \in Ids : DeleteSession(k, sid)
    \/ \E k \in Slots : SessionStats(k)
    \/ \E k \in Slots, periodic \in BOOLEAN : CleanupScan(k, periodic)
    \/ \E k \in Slots : CleanupRemove(k)
    \/ \E k \in Slots : PeriodicSleep(k)

Spec == Init /\ [][Next]_vars

----------------------------------------------------------------------------
(* The periodic sweep over a longer time, with sessions that are created   *)
(* and then left alone.                                                    *)

(* Time passes.  The event loop resumes periodic_cleanup as soon as its    *)
(* sleep is over and no coroutine is executing, so no time passes while a  *)
(* pass is due and the loop is free; a handler inside the synchronous      *)
(* llm.invoke call keeps the loop, and time passes with the pass waiting.  *)
SweepTick ==
    /\ server = "running"
    /\ \A k \in Slots : frames[k].pc \in {"idle", "stream"}
    /\ ~ (LoopFree /\ SweepDue)
    /\ now + TickMinutes <= MaxSweepTicks * TickMinutes
    /\ now' = now + TickMinutes
    /\ just_swept' = FALSE
    /\ UNCHANGED <<server, next_id, active_sessions, checkpointer,
                   cleanup_task, frames, current, optimization>>

SweepNext ==
    \/ Startup
    \/ SweepTick
    \/ \E k \in Slots : Return(k)
    \/ \E k \in Slots : StartBegin(k)
    \/ \E k \in Slots : StartStream(k)
    \/ \E k \in Slots : StartStore(k)
    \/ \E k \in Slots : CleanupScan(k, TRUE)
    \/ \E k \in Slots : CleanupRemove(k)
    \/ \E k \in Slots : PeriodicSleep(k)

SweepSpec == Init /\ [][SweepNext]_vars

----------------------------------------------------------------------------
(* main.py: analyze_content_optimization *)

(* The handler awaits optimization_agent.optimize_content and answers 200  *)
(* with the report, or 500 when the call raised.                           *)
AnalyzeContentOptimization ==
    /\ LoopFree
    /\ optimization.pc = "idle"
    /\ \E content \in Contents, topic \in Topics, response \in LLMResponses :
          LET result == optimize_content(content, topic, response)
          IN  optimization' =
                 [pc |-> "reply", content |-> content, topic |-> topic,
                  response |-> response,
                  code |-> IF result.raised THEN 500 ELSE 200,
                  report |-> result.report]
    /\ UNCHANGED <<server, now, next_id, active_sessions, checkpointer,
                   cleanup_task, frames, current, just_swept>>

AnalyzeReturn ==
    /\ server = "running"
    /\ optimization.pc = "reply"
    /\ optimization' = NoOptimization
    /\ UNCHANGED <<server, now, next_id, active_sessions, checkpointer,
                   cleanup_task, frames, current, just_swept>>

OptimizationNext ==
    \/ Startup
    \/ AnalyzeContentOptimization
    \/ AnalyzeReturn

OptimizationSpec == Init /\ [][OptimizationNext]_vars

----------------------------------------------------------------------------
(* Vocabulary of the properties *)

DoneTexts ==
    {<<"d", "o", "n", "e">>, <<"D", "O", "N", "E">>, <<"D", "o", "n", "e">>}

Replied(k, op) == frames[k].op = op /\ frames[k].pc = "reply"

Succeeded(k) == frames[k].resp.code = 200

(* The session the request of frame k names was in the store on entry. *)
Known(k) == frames[k].sid \in DOMAIN frames[k].before.store

(* llm.invoke raised during the handler of frame k. *)
GeneratorRaised(k) == frames[k].calls # <<>> /\ frames[k].resp.code = 500

History(thread_id) == checkpointer[thread_id].human_feedback

HistoryBefore(k) == frames[k].before.threads[frames[k].sid].human_feedback

Occurrences(seq, x) == Cardinality({i \in DOMAIN seq : seq[i] = x})

(* The thread holds a checkpoint from which the workflow can be resumed. *)
TokenLive(thread_id) ==
    checkpointer[thread_id].next \in {"feedback_collector", "content_generator"}

Age(session_data, current_time) == current_time - session_data.last_activity

----------------------------------------------------------------------------
(* C1: for every session in the store, its status is "completed" exactly   *)
(* when its resumption token (the checkpoint of its thread) has been       *)
(* discarded, and "waiting_feedback" exactly when the token is live.       *)
C1_StatusIffToken ==
    \A sid \in DOMAIN active_sessions :
        LET live == TokenLive(active_sessions[sid].thread_config)
            status == active_sessions[sid].status
        IN  /\ status = "completed" <=> ~ live
            /\ status = "waiting_feedback" <=> live

(* C2: the feedback history of a session lists the texts of its successful *)
(* submitFeedback calls in order, a final "done" included.  Stated call by *)
(* call: the history is empty when create returns, and when a submitFeedback *)
(* call returns successfully the history is the history the call found     *)
(* with the submitted text appended.                                       *)
C2_HistoryListsSubmissions ==
    \A k \in Slots :
        /\ Replied(k, "start") /\ Succeeded(k) => History(frames[k].sid) = <<>>
        /\ Replied(k, "feedback") /\ Succeeded(k)
              => History(frames[k].sid) = Append(HistoryBefore(k), frames[k].fb)

(* C3: a submitFeedback whose text is "done" in any letter case, on a      *)
(* session in the store, calls the generator not once, leaves the stored   *)
(* draft as it was, returns that draft, and returns and stores the status  *)
(* "completed".                                                            *)
C3_DoneKeepsDraft ==
    \A k \in Slots :
        Replied(k, "feedback") /\ Known(k) /\ frames[k].fb \in DoneTexts
        => LET sid == frames[k].sid
               draft == frames[k].before.store[sid].current_post
           IN  /\ Succeeded(k)
               /\ frames[k].calls = <<>>
               /\ checkpointer[sid].generated_post
                     = frames[k].before.threads[sid].generated_post
               /\ sid \in DOMAIN active_sessions
               /\ active_sessions[sid].current_post = draft
               /\ frames[k].resp.post = draft
               /\ frames[k].resp.status = "completed"
               /\ active_sessions[sid].status = "completed"

(* C3, witness: "DONE" was submitted to a waiting session that had already *)
(* been through a round of feedback, and the call has returned.            *)
C3_Witness ==
    \E k \in Slots :
        /\ Replied(k, "feedback") /\ Known(k)
        /\ frames[k].fb = <<"D", "O", "N", "E">>
        /\ frames[k].before.store[frames[k].sid].status = "waiting_feedback"
        /\ Len(checkpointer[frames[k].sid].generated_post) >= 2

(* C4: submitFeedback on a session that is already "completed" succeeds    *)
(* for any text without running the workflow or the generator, returns the *)
(* stored draft and "completed", and leaves draft, status and history      *)
(* unchanged.                                                              *)
C4_CompletedShortCircuits ==
    \A k \in Slots :
        Replied(k, "feedback") /\ Known(k)
           /\ frames[k].before.store[frames[k].sid].status = "completed"
        => LET sid == frames[k].sid
           IN  /\ Succeeded(k)
               /\ frames[k].calls = <<>>
               /\ checkpointer = frames[k].before.threads
               /\ active_sessions = frames[k].before.store
               /\ frames[k].resp.post = frames[k].before.store[sid].current_post
               /\ frames[k].resp.status = "completed"

(* C5: submitFeedback with an identifier that is not in the store fails    *)
(* with the not-found outcome (404) for any text, calls the generator not  *)
(* once and leaves the store and the threads unchanged.                    *)
C5_UnknownIdNotFound ==
    \A k \in Slots :
        Replied(k, "feedback") /\ ~ Known(k)
        => /\ frames[k].resp.code = 404
           /\ frames[k].calls = <<>>
           /\ active_sessions = frames[k].before.store
           /\ checkpointer = frames[k].before.threads

(* C6: when the generator fails during a submitFeedback on a waiting       *)
(* session, the call fails and the session's persisted state is as before  *)
(* the call: its record in the store and the saved state of its workflow,  *)
(* the feedback history included.                                          *)
C6_FailedGenerationKeepsState ==
    \A k \in Slots :
        Replied(k, "feedback") /\ Known(k) /\ GeneratorRaised(k)
           /\ frames[k].before.store[frames[k].sid].status = "waiting_feedback"
        => LET sid == frames[k].sid
           IN  /\ ~ Succeeded(k)
               /\ active_sessions = frames[k].before.store
               /\ checkpointer[sid] = frames[k].before.threads[sid]

(* C7: concurrent submitFeedback requests on a session are handled one     *)
(* after another: no two handlers are in progress at once, every           *)
(* successful submission puts its text into the history exactly once, and  *)
(* the stored draft is the one the last handled request produced.          *)
C7_ConcurrentFeedbackSerialized ==
    /\ \A j, k \in Slots : j # k => frames[j].op = "idle" \/ frames[k].op = "idle"
    /\ \A k \in Slots :
          Replied(k, "feedback") /\ Succeeded(k)
          => LET sid == frames[k].sid
             IN  /\ Occurrences(History(sid), frames[k].fb)
                       = Occurrences(HistoryBefore(k), frames[k].fb) + 1
                 /\ Len(History(sid)) = Len(HistoryBefore(k)) + 1
                 /\ active_sessions[sid].current_post = frames[k].resp.post
                 /\ active_sessions[sid].current_post
                       = Last(checkpointer[sid].generated_post)

(* C8: a sweep at time current_time removes exactly the sessions whose     *)
(* age is strictly greater than the timeout, whatever their status, leaves *)
(* every other record unchanged and returns the number it removed.         *)
C8_SweepRemovesExactlyExpired ==
    \A k \in Slots :
        Replied(k, "cleanup")
        => LET old == frames[k].before.store
               gone == DOMAIN old \ DOMAIN active_sessions
           IN  /\ DOMAIN active_sessions \subseteq DOMAIN old
               /\ gone = {sid \in DOMAIN old :
                            Age(old[sid], frames[k].current_time)
                               > SESSION_TIMEOUT_MINUTES}
               /\ \A sid \in DOMAIN active_sessions : active_sessions[sid] = old[sid]
               /\ Succeeded(k)
               /\ frames[k].resp.count = Cardinality(gone)

(* C8, witness: a sweep has removed a completed session and kept a session *)
(* whose age equals the timeout.                                           *)
C8_Witness ==
    \E k \in Slots :
        /\ Replied(k, "cleanup")
        /\ \E sid \in DOMAIN frames[k].before.store \ DOMAIN active_sessions :
              frames[k].before.store[sid].status = "completed"
        /\ \E sid \in DOMAIN active_sessions :
              Age(active_sessions[sid], frames[k].current_time)
                 = SESSION_TIMEOUT_MINUTES

(* C9: a sweep that runs right after another sweep, at the same time and   *)
(* with nothing in between, finds no expired session, removes none and     *)
(* returns 0.                                                              *)
C9_SweepIdempotent ==
    \A k \in Slots :
        frames[k].op = "cleanup" /\ frames[k].before.just_swept
        => /\ frames[k].expired = {}
           /\ frames[k].pc = "reply"
                 => /\ frames[k].resp.count = 0
                    /\ Succeeded(k)
                    /\ active_sessions = frames[k].before.store

(* C9, witness: a second sweep in a row has returned, after a first one    *)
(* that had sessions to remove (the store is smaller than the number of    *)
(* sessions created) and kept one.                                         *)
C9_Witness ==
    \E k \in Slots :
        /\ Replied(k, "cleanup")
        /\ frames[k].before.just_swept
        /\ active_sessions # <<>>
        /\ now > SESSION_TIMEOUT_MINUTES
        /\ Cardinality(DOMAIN active_sessions) < next_id - 1

(* C10: a successful create has called the generator once, with no prior   *)
(* feedback, and has stored a new session with status "waiting_feedback",  *)
(* the generated draft, an empty history, a workflow suspended at the      *)
(* feedback gate and both timestamps; the response carries the same id,    *)
(* draft and status.  No session that can receive feedback is without a    *)
(* first draft.                                                            *)
C10_CreateStoresFirstDraft ==
    /\ \A k \in Slots :
          Replied(k, "start") /\ Succeeded(k)
          => LET sid == frames[k].sid
             IN  /\ frames[k].calls = <<NoFeedbackYet>>
                 /\ sid \notin DOMAIN frames[k].before.store
                 /\ sid \in DOMAIN active_sessions
                 /\ active_sessions[sid].status = "waiting_feedback"
                 /\ checkpointer[sid].generated_post = <<Draft(sid, 1)>>
                 /\ active_sessions[sid].current_post = Draft(sid, 1)
                 /\ History(sid) = <<>>
                 /\ checkpointer[sid].next = "feedback_collector"
                 /\ active_sessions[sid].created_at = now
                 /\ active_sessions[sid].last_activity = now
                 /\ frames[k].resp.sid = sid
                 /\ frames[k].resp.post = active_sessions[sid].current_post
                 /\ frames[k].resp.status = "waiting_feedback"
    /\ \A sid \in DOMAIN active_sessions :
          /\ checkpointer[active_sessions[sid].thread_config].generated_post # <<>>
          /\ active_sessions[sid].current_post # NoPost
    /\ \A k \in Slots :
          frames[k].op = "feedback" /\ frames[k].pc = "stream"
          => checkpointer[frames[k].sid].generated_post # <<>>

(* C10, witness: a create has returned a second session, some time after   *)
(* the first.                                                              *)
C10_Witness ==
    \E k \in Slots :
        /\ Replied(k, "start") /\ Succeeded(k)
        /\ frames[k].before.store # <<>>
        /\ now > 0

(* C11: when the generator raises during create (the workflow of the new   *)
(* thread holds no draft when the handler returns), the call fails with    *)
(* the server-side failure 500 and the store is the store the call found:  *)
(* no session was added, under the new identifier or any other.            *)
C11_FailedCreateAddsNoSession ==
    \A k \in Slots :
        Replied(k, "start") /\ checkpointer[frames[k].sid].generated_post = <<>>
        => /\ frames[k].resp.code = 500
           /\ frames[k].calls = <<NoFeedbackYet>>
           /\ active_sessions = frames[k].before.store
           /\ frames[k].sid \notin DOMAIN active_sessions

(* C11, witness: a create has failed while another session was in the      *)
(* store.                                                                  *)
C11_Witness ==
    \E k \in Slots :
        /\ Replied(k, "start")
        /\ checkpointer[frames[k].sid].generated_post = <<>>
        /\ frames[k].before.store # <<>>

(* C12: a submitFeedback whose text is "done" in any letter case, on a     *)
(* session waiting for feedback, resumes the workflow at the gate, which   *)
(* records the text, routes to content_finalizer and finishes: when the    *)
(* call returns the workflow of the session has ended and is no longer     *)
(* suspended at feedback_collector.                                        *)
C12_DoneFinishesWorkflow ==
    \A k \in Slots :
        /\ Replied(k, "feedback") /\ Known(k) /\ frames[k].fb \in DoneTexts
        /\ frames[k].before.store[frames[k].sid].status = "waiting_feedback"
        /\ frames[k].before.threads[frames[k].sid].next = "feedback_collector"
        => /\ checkpointer[frames[k].sid].next = "__end__"
           /\ ~ checkpointer[frames[k].sid].should_continue

(* C13: on a session waiting for feedback, submitFeedback terminates       *)
(* exactly for the texts whose lower-case form is "done" ("done", "DONE",  *)
(* "Done"); no text is trimmed, so "done " and " done", like every other   *)
(* text, call the generator, leave the status "waiting_feedback" and, when *)
(* the generator returns, store and return a new draft.                    *)
C13_DoneTestLowercaseNoTrim ==
    \A k \in Slots :
        /\ Replied(k, "feedback") /\ Known(k)
        /\ frames[k].before.store[frames[k].sid].status = "waiting_feedback"
        => LET sid == frames[k].sid
               draft == frames[k].before.store[sid].current_post
           IN  /\ sid \in DOMAIN active_sessions
               /\ active_sessions[sid].status = "completed"
                     <=> frames[k].fb \in DoneTexts
               /\ frames[k].fb \in DoneTexts
                     => /\ Succeeded(k)
                        /\ frames[k].resp.status = "completed"
                        /\ frames[k].calls = <<>>
               /\ frames[k].fb \notin DoneTexts
                     => /\ Len(frames[k].calls) = 1
                        /\ active_sessions[sid].status = "waiting_feedback"
                        /\ Succeeded(k) \/ GeneratorRaised(k)
                        /\ Succeeded(k)
                              => /\ frames[k].resp.status = "waiting_feedback"
                                 /\ frames[k].resp.post # draft
                                 /\ frames[k].resp.post # NoPost
                                 /\ active_sessions[sid].current_post
                                       = frames[k].resp.post

(* C13, witness: " done" was submitted to a waiting session and the call   *)
(* has returned a new draft.                                               *)
C13_Witness ==
    \E k \in Slots :
        /\ Replied(k, "feedback") /\ Known(k) /\ Succeeded(k)
        /\ frames[k].fb = <<" ", "d", "o", "n", "e">>
        /\ frames[k].before.store[frames[k].sid].status = "waiting_feedback"

(* C14: when a submitFeedback call returns successfully, a terminating     *)
(* "done" included, the last_activity of the session is the time of the    *)
(* call.                                                                   *)
C14_FeedbackRefreshesLastActivity ==
    \A k \in Slots :
        Replied(k, "feedback") /\ Succeeded(k) /\ frames[k].sid \in DOMAIN active_sessions
        => active_sessions[frames[k].sid].last_activity = now

(* C15: expiry is enforced by the sweep alone.  A handler other than the   *)
(* sweep and delete removes no session; get on a stored session answers    *)
(* its draft and status, and submitFeedback on a stored session is         *)
(* processed (it succeeds, or fails because the generator raised), however *)
(* long ago the session was last active.                                   *)
C15_ExpiryOnlyBySweep ==
    \A k \in Slots :
        /\ frames[k].op \notin {"idle", "cleanup", "delete"}
              => DOMAIN frames[k].before.store \subseteq DOMAIN active_sessions
        /\ Replied(k, "get") /\ Known(k)
              => /\ Succeeded(k)
                 /\ frames[k].resp.post = frames[k].before.store[frames[k].sid].current_post
                 /\ frames[k].resp.status = frames[k].before.store[frames[k].sid].status
                 /\ active_sessions = frames[k].before.store
        /\ Replied(k, "feedback") /\ Known(k)
              => /\ Succeeded(k) \/ GeneratorRaised(k)
                 /\ frames[k].fb \in DoneTexts => Succeeded(k)
                 /\ frames[k].fb \notin DoneTexts => frames[k].calls # <<>>

(* C15, witness: get has answered for a session whose age exceeds the      *)
(* timeout.                                                                *)
C15_Witness ==
    \E k \in Slots :
        /\ Replied(k, "get") /\ Known(k) /\ Succeeded(k)
        /\ Age(active_sessions[frames[k].sid], now) > SESSION_TIMEOUT_MINUTES

(* C16: a session that gets no further feedback and is not deleted is      *)
(* removed by the periodic sweep no later than the timeout plus one sweep  *)
(* interval after its last activity: no session is in the store with an    *)
(* age greater than 5 + 10 minutes.                                        *)
C16_GoneWithinTimeoutPlusInterval ==
    \A sid \in DOMAIN active_sessions :
        Age(active_sessions[sid], now)
           <= SESSION_TIMEOUT_MINUTES + CLEANUP_INTERVAL_MINUTES

(* C17: get and delete on an identifier that is not in the store answer    *)
(* 404 and leave the store as it was; delete on a stored identifier        *)
(* succeeds, removes that session and leaves every other record as it      *)
(* was; get, delete and submitFeedback on an identifier that is no longer  *)
(* in the store fail and do not bring it back.                             *)
C17_GetDeleteNotFound ==
    \A k \in Slots :
        LET sid == frames[k].sid
            old == frames[k].before.store
        IN  /\ (Replied(k, "get") \/ Replied(k, "delete")) /\ ~ Known(k)
                  => /\ frames[k].resp.code = 404
                     /\ active_sessions = old
            /\ Replied(k, "delete") /\ Known(k)
                  => /\ Succeeded(k)
                     /\ DOMAIN active_sessions = DOMAIN old \ {sid}
                     /\ \A other \in DOMAIN active_sessions :
                           active_sessions[other] = old[other]
            /\ (Replied(k, "get") \/ Replied(k, "delete") \/ Replied(k, "feedback"))
                  /\ ~ Known(k)
                  => /\ ~ Succeeded(k)
                     /\ sid \notin DOMAIN active_sessions

(* C17, witness: submitFeedback has failed for a session that was created  *)
(* and, no time having passed, removed by delete, while another session    *)
(* is in the store.                                                        *)
C17_Witness ==
    \E k \in Slots :
        /\ Replied(k, "feedback") /\ ~ Known(k)
        /\ now = 0
        /\ checkpointer[frames[k].sid].next = "feedback_collector"
        /\ active_sessions # <<>>

(* C18: stats changes neither the store nor any workflow, and it reports   *)
(* total = the number of stored sessions, expired = the number of stored   *)
(* sessions whose age is strictly greater than the timeout, which is the   *)
(* set a sweep at the same time collects, and healthy = total - expired,   *)
(* never negative.                                                         *)
C18_StatsReadOnlyConsistent ==
    \A k \in Slots :
        Replied(k, "stats")
        => /\ Succeeded(k)
           /\ active_sessions = frames[k].before.store
           /\ checkpointer = frames[k].before.threads
           /\ frames[k].resp.total = Cardinality(DOMAIN active_sessions)
           /\ frames[k].resp.count =
                 Cardinality({sid \in DOMAIN active_sessions :
                                Age(active_sessions[sid], now)
                                   > SESSION_TIMEOUT_MINUTES})
           /\ frames[k].resp.count = Cardinality(ExpiredSessions(now))
           /\ HealthySessions(frames[k].resp) >= 0
           /\ HealthySessions(frames[k].resp)
                 = Cardinality(DOMAIN active_sessions \ ExpiredSessions(now))

(* C18, witness: stats has reported one expired and one healthy session,   *)
(* the healthy one created before the timeout and kept by feedback.        *)
C18_Witness ==
    \E k \in Slots :
        /\ Replied(k, "stats")
        /\ frames[k].resp.count = 1
        /\ frames[k].resp.total = 2
        /\ \E sid \in DOMAIN active_sessions :
              /\ now - active_sessions[sid].created_at > SESSION_TIMEOUT_MINUTES
              /\ ~ IsExpired(active_sessions[sid], now)

(* C19: create, submitFeedback, get and delete on one session leave the    *)
(* record and the workflow state (feedback history included) of every      *)
(* other session as they were, at every point of the handler; and what the *)
(* handler answers depends on the record and the workflow of its own       *)
(* session (and on whether the generator returns) alone, so that it is the *)
(* same whatever was done to other sessions before.                        *)
C19_SessionsIndependent ==
    \A k \in Slots :
        LET sid == frames[k].sid
            old == frames[k].before.store
            thread == frames[k].before.threads[sid]
            failed == Resp(500, 0, NoPost, "", 0, 0)
        IN  /\ frames[k].op \in {"start", "feedback", "get", "delete"}
                  => \A other \in Ids \ {sid} :
                        /\ other \in DOMAIN active_sessions <=> other \in DOMAIN old
                        /\ other \in DOMAIN old => active_sessions[other] = old[other]
                        /\ checkpointer[other] = frames[k].before.threads[other]
            /\ Replied(k, "start")
                  => frames[k].resp \in
                        {failed, Resp(200, sid, Draft(sid, 1), "waiting_feedback", 0, 0)}
            /\ Replied(k, "get")
                  => frames[k].resp =
                        IF Known(k)
                        THEN Resp(200, sid, old[sid].current_post, old[sid].status, 0, 0)
                        ELSE Resp(404, sid, NoPost, "", 0, 0)
            /\ Replied(k, "delete")
                  => frames[k].resp =
                        Resp(IF Known(k) THEN 200 ELSE 404, sid, NoPost, "", 0, 0)
            /\ Replied(k, "feedback")
                  => frames[k].resp \in
                        IF ~ Known(k) THEN {[failed EXCEPT !.sid = sid]}
                        ELSE IF frames[k].fb \in DoneTexts
                        THEN {Resp(200, sid, old[sid].current_post, "completed", 0, 0)}
                        ELSE {[failed EXCEPT !.sid = sid],
                              Resp(200, sid, Draft(sid, Len(thread.generated_post) + 1),
                                   "waiting_feedback", 0, 0)}

(* C19, witness: feedback to the second session has produced a new draft   *)
(* while the first session, which has a feedback history of its own, is in *)
(* the store.                                                              *)
C19_Witness ==
    \E k \in Slots :
        /\ Replied(k, "feedback") /\ Succeeded(k)
        /\ frames[k].sid = 2
        /\ frames[k].fb \notin DoneTexts
        /\ 1 \in DOMAIN active_sessions
        /\ History(1) # <<>>

(* C20: optimize_content returns a report for every outcome of the         *)
(* generator call, and the handler answers 200.  When llm.invoke raises,   *)
(* when the text holds no opening brace followed by a closing brace, and   *)
(* when the text between the first opening and the last closing brace is   *)
(* no JSON object (it holds prose, a further brace, or misplaced commas),  *)
(* the report is the fallback computed from content and topic; a report    *)
(* that is not the fallback was parsed from a text with braces.            *)
C20_OptimizationNeverFails ==
    optimization.pc = "reply"
    => LET text == optimization.response.content
           report == optimization.report
           fallback == create_fallback_optimization(optimization.content,
                                                    optimization.topic)
           spans == {p \in (DOMAIN text) \X (DOMAIN text) :
                       /\ p[1] < p[2]
                       /\ text[p[1]] = "{" /\ text[p[2]] = "}"
                       /\ \A i \in DOMAIN text : text[i] = "{" => p[1] <= i
                       /\ \A i \in DOMAIN text : text[i] = "}" => i <= p[2]}
           unparsable ==
               \E p \in spans :
                  \/ \E i \in DOMAIN text :
                        p[1] < i /\ i < p[2] /\ text[i] \in {"x", "{", "}"}
                  \/ text[p[1] + 1] = ","
                  \/ text[p[2] - 1] = ","
       IN  /\ optimization.code = 200
           /\ optimization.response.raised => report = fallback
           /\ ~ optimization.response.raised /\ spans = {} => report = fallback
           /\ ~ optimization.response.raised /\ unparsable => report = fallback
           /\ report # fallback
                 => /\ ~ optimization.response.raised
                    /\ spans # {}
                    /\ report = ParsedReport(report.fields)
           /\ report = fallback
                 => /\ report.fields = ReportFields
                    /\ report.overall_score = 75
                    /\ report.paragraph_count >= 1
                    /\ Len(report.hashtags) \in 2..5
           /\ text \in {<<"{", "r", "}">>, <<"x", "{", "r", "}">>}
                 => report = ParsedReport(ReportFields)

(* C20, witness: the generator raised on a request with a topic of four    *)
(* words and a content of two paragraphs, and the handler has answered     *)
(* with the fallback report: three hashtags from the topic and two fixed   *)
(* ones.                                                                   *)
C20_Witness ==
    /\ optimization.pc = "reply"
    /\ optimization.response.raised
    /\ optimization.report.paragraph_count = 2
    /\ optimization.report.hashtags =
          << <<"#", "D">>, <<"#", "E">>, <<"#", "D", "d">>,
             <<"#Content">>, <<"#ProfessionalGrowth">> >>

(* C21: every report optimize_content returns has the six top-level        *)
(* fields, and a generator text that holds a JSON object of another shape  *)
(* is answered with the fallback report.                                   *)
C21_EveryReportHasSixFields ==
    optimization.pc = "reply"
    => /\ optimization.report.fields = ReportFields
       /\ \/ optimization.report =
                create_fallback_optimization(optimization.content,
                                             optimization.topic)
          \/ /\ ~ optimization.response.raised
             /\ "r" \in {optimization.response.content[i] :
                            i \in DOMAIN optimization.response.content}

(* C22: when the empty string is submitted to a session whose stored       *)
(* status is waiting_feedback and the call returns successfully, the empty *)
(* string has been appended to the feedback history, the generator was     *)
(* invoked once with it as the latest feedback item, the new draft is      *)
(* stored and returned, and the status is still waiting_feedback.          *)
C22_EmptyFeedbackIsOrdinary ==
    \A k \in Slots :
        /\ Replied(k, "feedback") /\ Known(k) /\ Succeeded(k)
        /\ frames[k].fb = <<>>
        /\ frames[k].before.store[frames[k].sid].status = "waiting_feedback"
        => LET sid == frames[k].sid
               thread_id == frames[k].before.store[sid].thread_config
           IN  /\ History(thread_id) = Append(HistoryBefore(k), <<>>)
               /\ frames[k].calls = << <<>> >>
               /\ frames[k].resp.post # NoPost
               /\ frames[k].resp.post # frames[k].before.store[sid].current_post
               /\ frames[k].resp.status = "waiting_feedback"
               /\ sid \in DOMAIN active_sessions
               /\ active_sessions[sid].current_post = frames[k].resp.post
               /\ active_sessions[sid].status = "waiting_feedback"

(* C22 on a thread suspended at the feedback gate, which is every waiting  *)
(* session but one whose last generation failed.                           *)
C22_AtTheGate ==
    \A k \in Slots :
        /\ Replied(k, "feedback") /\ Known(k) /\ Succeeded(k)
        /\ frames[k].fb = <<>>
        /\ frames[k].before.store[frames[k].sid].status = "waiting_feedback"
        /\ frames[k].before.threads[frames[k].sid].next = "feedback_collector"
        => LET sid == frames[k].sid
               thread_id == frames[k].before.store[sid].thread_config
           IN  /\ History(thread_id) = Append(HistoryBefore(k), <<>>)
               /\ frames[k].calls = << <<>> >>
               /\ frames[k].resp.post # NoPost
               /\ frames[k].resp.post # frames[k].before.store[sid].current_post
               /\ frames[k].resp.status = "waiting_feedback"
               /\ sid \in DOMAIN active_sessions
               /\ active_sessions[sid].current_post = frames[k].resp.post
               /\ active_sessions[sid].status = "waiting_feedback"

(* C23: "done" submitted to a session that is already completed succeeds,  *)
(* answers the stored draft with status completed, and leaves the store    *)
(* record and the thread (the feedback history with it) as they were; the  *)
(* generator is not invoked.                                               *)
C23_RepeatedDoneIdempotent ==
    \A k \in Slots :
        /\ Replied(k, "feedback") /\ Known(k)
        /\ frames[k].fb \in DoneTexts
        /\ frames[k].before.store[frames[k].sid].status = "completed"
        => /\ Succeeded(k)
           /\ frames[k].resp.status = "completed"
           /\ frames[k].resp.post = frames[k].before.store[frames[k].sid].current_post
           /\ frames[k].calls = <<>>
           /\ active_sessions = frames[k].before.store
           /\ checkpointer = frames[k].before.threads

(* C23, witness: "done" has been answered on a session that was completed  *)
(* and had a draft replaced by feedback before.                            *)
C23_Witness ==
    \E k \in Slots :
        /\ Replied(k, "feedback") /\ Known(k) /\ Succeeded(k)
        /\ frames[k].fb \in DoneTexts
        /\ frames[k].before.store[frames[k].sid].status = "completed"
        /\ Len(checkpointer[frames[k].sid].generated_post) = 2

(* C24: a successful create has invoked the generator exactly once, on no  *)
(* feedback; a successful submitFeedback with non-terminating feedback on  *)
(* a waiting_feedback session has invoked it exactly once, with the        *)
(* submitted feedback as the latest feedback item; after either the thread *)
(* is suspended at the feedback gate, and the drafts generated before are  *)
(* kept with the one new draft after them.                                 *)
C24_GenerationOncePerIteration ==
    \A k \in Slots :
        /\ Replied(k, "start") /\ Succeeded(k)
           => /\ frames[k].calls = <<NoFeedbackYet>>
              /\ checkpointer[frames[k].sid].next = "feedback_collector"
              /\ checkpointer[frames[k].sid].generated_post = <<frames[k].resp.post>>
        /\ /\ Replied(k, "feedback") /\ Known(k) /\ Succeeded(k)
           /\ Lower(frames[k].fb) # Done
           /\ frames[k].before.store[frames[k].sid].status = "waiting_feedback"
           => LET thread_id == frames[k].before.store[frames[k].sid].thread_config
              IN  /\ frames[k].calls = <<frames[k].fb>>
                  /\ checkpointer[thread_id].next = "feedback_collector"
                  /\ checkpointer[thread_id].generated_post =
                        Append(frames[k].before.threads[thread_id].generated_post,
                               frames[k].resp.post)

(* C24 on a thread suspended at the feedback gate, which is every waiting  *)
(* session but one whose last generation failed.                           *)
C24_AtTheGate ==
    \A k \in Slots :
        /\ Replied(k, "feedback") /\ Known(k) /\ Succeeded(k)
        /\ Lower(frames[k].fb) # Done
        /\ frames[k].before.store[frames[k].sid].status = "waiting_feedback"
        /\ frames[k].before.threads[frames[k].sid].next = "feedback_collector"
        => LET thread_id == frames[k].before.store[frames[k].sid].thread_config
           IN  /\ frames[k].calls = <<frames[k].fb>>
               /\ checkpointer[thread_id].next = "feedback_collector"
               /\ checkpointer[thread_id].generated_post =
                     Append(frames[k].before.threads[thread_id].generated_post,
                            frames[k].resp.post)

(* C25: when a create or a submitFeedback with non-terminating feedback    *)
(* returns successfully, the draft in the store is the draft of the        *)
(* response and is the text the generator returned during the call; the    *)
(* draft in the store is at all times the last one generated on the        *)
(* session's thread, and a get answers the draft in the store.             *)
C25_StoredDraftIsGeneratedDraft ==
    /\ \A k \in Slots :
          /\ \/ Replied(k, "start")
             \/ Replied(k, "feedback") /\ Known(k) /\ Lower(frames[k].fb) # Done
          /\ Succeeded(k)
          => LET sid == frames[k].sid
                 thread_id == active_sessions[sid].thread_config
                 drafts == checkpointer[thread_id].generated_post
             IN  /\ frames[k].resp.post = Draft(thread_id, Len(drafts))
                 /\ frames[k].resp.post = Last(drafts)
                 /\ active_sessions[sid].current_post = frames[k].resp.post
                 /\ Len(frames[k].calls) = 1
    /\ \A sid \in DOMAIN active_sessions :
          \/ \E k \in Slots : /\ frames[k].op = "feedback"
                              /\ frames[k].pc = "write"
                              /\ frames[k].sid = sid
          \/ active_sessions[sid].current_post =
                Last(checkpointer[active_sessions[sid].thread_config].generated_post)
    /\ \A k \in Slots :
          Replied(k, "get") /\ Known(k)
          => /\ Succeeded(k)
             /\ frames[k].resp.post = active_sessions[frames[k].sid].current_post

(* C25, witness: a get has answered the second draft of a session. *)
C25_Witness ==
    \E k \in Slots :
        /\ Replied(k, "get") /\ Known(k) /\ Succeeded(k)
        /\ Len(checkpointer[frames[k].sid].generated_post) = 2
        /\ frames[k].resp.post = Draft(frames[k].sid, 2)

(* C26: while the process runs the sweep task exists, no request handler   *)
(* runs before its first pass, and afterwards a pass is never overdue: the *)
(* time is never later than 10 minutes after the end of the last pass      *)
(* without the next pass having begun, whatever the request handlers do.   *)
C26_PassEveryTenMinutes ==
    /\ server = "running" => cleanup_task.state \in {"created", "scheduled"}
    /\ cleanup_task.state = "created"
          => \A k \in Slots : frames[k].op \in {"idle", "cleanup"}
    /\ cleanup_task.state = "scheduled" => now <= cleanup_task.wake

(* C26, the parts about the life of the task: it exists exactly while the  *)
(* process runs, a pass runs in no other state, a periodic pass that has   *)
(* ended is followed by the next sleep, and after shutdown the task is     *)
(* cancelled with no pass under way.                                       *)
C26_TaskLifetime ==
    /\ server = "init" <=> cleanup_task.state = "none"
    /\ server = "running" <=> cleanup_task.state \in {"created", "scheduled"}
    /\ server = "stopped" <=> cleanup_task.state = "cancelled"
    /\ server = "stopped" => \A k \in Slots : frames[k].op = "idle"
    /\ \A k \in Slots :
          frames[k].periodic
          => /\ server = "running"
             /\ frames[k].op = "cleanup"
             /\ SweepDue
             /\ frames[k].pc = "reply" => ENABLED PeriodicSleep(k)

(* C27: in every step, a session that enters the store has status          *)
(* waiting_feedback; the stored status of a session changes only to        *)
(* completed, and only in the step in which a submission whose lower-cased *)
(* text is "done" is answered for that session; a completed session that   *)
(* stays in the store stays completed.                                     *)
C27_StatusMonotone ==
    [][ \A sid \in Ids :
          /\ sid \in DOMAIN active_sessions' /\ sid \notin DOMAIN active_sessions
                => active_sessions'[sid].status = "waiting_feedback"
          /\ sid \in DOMAIN active_sessions' /\ sid \in DOMAIN active_sessions
                => /\ active_sessions[sid].status = "completed"
                         => active_sessions'[sid].status = "completed"
                   /\ active_sessions'[sid].status # active_sessions[sid].status
                         => /\ active_sessions'[sid].status = "completed"
                            /\ \E k \in Slots :
                                  /\ frames'[k].op = "feedback"
                                  /\ frames'[k].pc = "reply"
                                  /\ frames'[k].sid = sid
                                  /\ Lower(frames'[k].fb) = Done
                                  /\ frames[k].op = "idle" ]_vars

(* C27, witness: a submission that is not "done" has been answered with a  *)
(* new draft on a completed session, and the stored status is completed.   *)
C27_Witness ==
    \E k \in Slots :
        /\ Replied(k, "feedback") /\ Known(k) /\ Succeeded(k)
        /\ Lower(frames[k].fb) # Done
        /\ frames[k].before.store[frames[k].sid].status = "completed"
        /\ active_sessions[frames[k].sid].status = "completed"
        /\ frames[k].resp.status = "waiting_feedback"

(* The identifier has been allocated, no create handler is working on it   *)
(* and it is not in the store: its session was removed, or was never       *)
(* stored because its first generation failed.                             *)
Retired(sid) ==
    /\ sid < next_id
    /\ sid \notin DOMAIN active_sessions
    /\ \A k \in Slots : ~ (frames[k].op = "start" /\ frames[k].sid = sid)

(* C28: a create handler works on an identifier that is not in the store;  *)
(* and in every step, an identifier that is retired stays retired, the     *)
(* checkpoint of its thread is left as it is, and a request that names it  *)
(* is answered 404 or 500 without a generator call.                        *)
C28_RemovalIsFinal ==
    [][ /\ \A k \in Slots :
             frames[k].op = "start" /\ frames[k].pc \in {"stream", "store"}
             => frames[k].sid \notin DOMAIN active_sessions
        /\ \A sid \in Ids :
             Retired(sid)
             => /\ Retired(sid)'
                /\ checkpointer'[sid] = checkpointer[sid]
                /\ \A k \in Slots :
                      /\ frames[k].op = "idle"
                      /\ frames'[k].op \in {"feedback", "get", "delete"}
                      /\ frames'[k].sid = sid
                      => /\ frames'[k].pc = "reply"
                         /\ frames'[k].resp.code \in {404, 500}
                         /\ frames'[k].calls = <<>> ]_vars

(* C28, witness: feedback has been answered for a session that had a draft *)
(* and was removed, after a later session was created.                     *)
C28_Witness ==
    \E k \in Slots, sid \in Ids :
        /\ Retired(sid)
        /\ checkpointer[sid].generated_post # <<>>
        /\ Replied(k, "feedback") /\ frames[k].sid = sid
        /\ \E later \in DOMAIN active_sessions : later > sid

(* C29: between the scan and the removals of a sweep pass no other handler *)
(* is under way and the store is as the scan found it; the identifiers the *)
(* pass collected are the sessions expired at the time it read; the pass   *)
(* ends without a KeyError, having removed exactly those, and every        *)
(* session it removed had at the removal the last_activity the scan saw.   *)
C29_SweepAtomic ==
    \A k \in Slots :
        frames[k].op = "cleanup"
        => /\ \A j \in Slots : j # k => frames[j].op = "idle"
           /\ frames[k].expired \subseteq DOMAIN frames[k].before.store
           /\ \A sid \in DOMAIN frames[k].before.store :
                 sid \in frames[k].expired
                    <=> IsExpired(frames[k].before.store[sid], frames[k].current_time)
           /\ frames[k].pc = "remove" => active_sessions = frames[k].before.store
           /\ frames[k].pc = "reply"
                 => /\ Succeeded(k)
                    /\ active_sessions =
                          Remove(frames[k].before.store, frames[k].expired)

(* C29, witness: a periodic pass has removed a session and left another    *)
(* one whose last_activity had been refreshed by feedback.                 *)
C29_Witness ==
    \E k \in Slots :
        /\ Replied(k, "cleanup") /\ frames[k].periodic
        /\ frames[k].expired # {}
        /\ \E sid \in DOMAIN active_sessions :
              active_sessions[sid].last_activity > active_sessions[sid].created_at

(* C30: a get leaves the store and the threads as it found them; a session *)
(* whose thread has no feedback has its creation time as last_activity,    *)
(* and a sweep pass collects it exactly when more than the timeout has     *)
(* passed since its creation, whether it was read or not.                  *)
C30_GetIsPureRead ==
    /\ \A k \in Slots :
          Replied(k, "get")
          => /\ active_sessions = frames[k].before.store
             /\ checkpointer = frames[k].before.threads
             /\ frames[k].calls = <<>>
    /\ \A sid \in DOMAIN active_sessions :
          History(active_sessions[sid].thread_config) = <<>>
          => active_sessions[sid].last_activity = active_sessions[sid].created_at
    /\ \A k \in Slots :
          frames[k].op = "cleanup"
          => \A sid \in DOMAIN frames[k].before.store :
                frames[k].before.threads[sid].human_feedback = <<>>
                => (sid \in frames[k].expired
                      <=> frames[k].current_time
                             - frames[k].before.store[sid].created_at
                          > SESSION_TIMEOUT_MINUTES)

(* C30, witness: a get has answered a session five minutes after its last  *)
(* activity, while the session has had no feedback.                        *)
C30_Witness ==
    \E k \in Slots :
        /\ Replied(k, "get") /\ Known(k) /\ Succeeded(k)
        /\ History(frames[k].sid) = <<>>
        /\ Age(active_sessions[frames[k].sid], now) = TickMinutes

============================================================================
